---------------------------- MODULE Spec2Model ----------------------------
(***************************************************************************)
(* Model of the rody crate: the block data model and its builder           *)
(* (src/src/block.rs), the selective block formatter (src/src/block.rs),   *)
(* the regular time line iterator (src/src/timeline.rs) and the driver     *)
(* program (src/src/main.rs).                                              *)
(*                                                                         *)
(* Every number of the program is an f64.  The model computes with IEEE    *)
(* 754 binary64 values exactly: a value is a sign, a 53-bit significand    *)
(* and a binary exponent, every arithmetic result is computed exactly on   *)
(* arbitrary-size naturals and then rounded to nearest, ties to even.      *)
(* The exponent range is not modelled: the inputs of the model are small,  *)
(* so no result overflows or becomes subnormal; the only infinity is the   *)
(* one a division by zero produces, and NaN is an input of the time line.  *)
(***************************************************************************)
EXTENDS Integers, Sequences, FiniteSets, TLC

-----------------------------------------------------------------------------
(* Natural numbers of arbitrary size: limbs of LimbBits bits, most         *)
(* significant first, no leading zero limb; <<>> is zero.                  *)

LimbBits == 13

Base == 8192

RECURSIVE Pow2(_)
Pow2(n) == IF n = 0 THEN 1 ELSE 2 * Pow2(n - 1)

Front(s) == SubSeq(s, 1, Len(s) - 1)

Zeros(k) == [i \in 1..k |-> 0]

RECURSIVE LStrip(_)
LStrip(a) == IF a = <<>> \/ a[1] # 0 THEN a ELSE LStrip(Tail(a))

RECURSIVE LFromNat(_)
LFromNat(n) == IF n = 0 THEN <<>> ELSE Append(LFromNat(n \div Base), n % Base)

RECURSIVE LAddC(_, _, _)
LAddC(a, b, c) ==
    IF a = <<>> /\ b = <<>>
    THEN (IF c = 0 THEN <<>> ELSE <<c>>)
    ELSE LET x == IF a = <<>> THEN 0 ELSE a[Len(a)]
             y == IF b = <<>> THEN 0 ELSE b[Len(b)]
             s == x + y + c
         IN  Append(LAddC(Front(a), Front(b), s \div Base), s % Base)

LAdd(a, b) == LAddC(a, b, 0)

\* a - b - c for a >= b + c, as many limbs as a (leading zeros kept).
RECURSIVE LSubC(_, _, _)
LSubC(a, b, c) ==
    IF a = <<>>
    THEN <<>>
    ELSE LET x == a[Len(a)]
             y == IF b = <<>> THEN 0 ELSE b[Len(b)]
             d == x - y - c
         IN  Append(LSubC(Front(a), Front(b), IF d < 0 THEN 1 ELSE 0),
                    IF d < 0 THEN d + Base ELSE d)

LSub(a, b) == LStrip(LSubC(a, b, 0))

\* -1, 0, 1 as a < b, a = b, a > b.
LCmp(a, b) ==
    IF Len(a) # Len(b)
    THEN (IF Len(a) < Len(b) THEN -1 ELSE 1)
    ELSE IF a = b
         THEN 0
         ELSE LET i == CHOOSE j \in 1..Len(a) :
                          a[j] # b[j] /\ \A k \in 1..(j - 1) : a[k] = b[k]
              IN  IF a[i] < b[i] THEN -1 ELSE 1

\* a * d + c for machine integers d, c < 2^17.
RECURSIVE LMulSmallC(_, _, _)
LMulSmallC(a, d, c) ==
    IF a = <<>>
    THEN LFromNat(c)
    ELSE LET t == a[Len(a)] * d + c
         IN  Append(LMulSmallC(Front(a), d, t \div Base), t % Base)

LMulSmall(a, d) == IF d = 0 THEN <<>> ELSE LMulSmallC(a, d, 0)

RECURSIVE LMul(_, _)
LMul(a, b) ==
    IF a = <<>> \/ b = <<>>
    THEN <<>>
    ELSE LET r == LMul(a, Front(b))
             h == IF r = <<>> THEN <<>> ELSE Append(r, 0)
         IN  IF b[Len(b)] = 0 THEN h ELSE LAdd(h, LMulSmall(a, b[Len(b)]))

\* Long division of a by the machine integer 0 < d < 2^17 from limb i on, with
\* the running remainder r and the quotient limbs q so far.
RECURSIVE LDivStep(_, _, _, _, _)
LDivStep(a, i, r, q, d) ==
    IF i > Len(a)
    THEN [q |-> LStrip(q), r |-> r]
    ELSE LET t == r * Base + a[i]
         IN  LDivStep(a, i + 1, t % d, Append(q, t \div d), d)

LDivSmall(a, d) == LDivStep(a, 1, 0, <<>>, d)

RECURSIVE BitLenInt(_)
BitLenInt(n) == IF n = 0 THEN 0 ELSE 1 + BitLenInt(n \div 2)

BitLen(a) == IF a = <<>> THEN 0 ELSE LimbBits * (Len(a) - 1) + BitLenInt(a[1])

LIsOdd(a) == a # <<>> /\ a[Len(a)] % 2 = 1

\* The number of zero limbs a ends with, and a without them.
RECURSIVE LowZeros(_)
LowZeros(a) == IF a = <<>> \/ a[Len(a)] # 0 THEN 0 ELSE 1 + LowZeros(Front(a))

LTrim(a) == SubSeq(a, 1, Len(a) - LowZeros(a))

\* a * 2^s
LShl(a, s) ==
    IF a = <<>> THEN <<>>
    ELSE LMulSmall(a, Pow2(s % LimbBits)) \o Zeros(s \div LimbBits)

\* a \div 2^s, and whether a bit was shifted out (st).
LShr(a, s) ==
    LET w    == s \div LimbBits
        keep == IF w >= Len(a) THEN <<>> ELSE SubSeq(a, 1, Len(a) - w)
        lost == \E i \in 1..Len(a) : i > Len(a) - w /\ a[i] # 0
        d    == LDivSmall(keep, Pow2(s % LimbBits))
    IN  [q |-> d.q, st |-> lost \/ d.r # 0]

-----------------------------------------------------------------------------
(* f64 values.  k is "fin", "inf" or "nan".  A finite value is             *)
(* sgn * man * 2^exp, where man is zero (and then exp = 0) or has exactly  *)
(* MantBits bits: the significand of a normal IEEE 754 binary64 number.    *)

MantBits == 53

F(s, m, e) == [k |-> "fin", sgn |-> s, man |-> m, exp |-> e]

FInf(s) == [k |-> "inf", sgn |-> s, man |-> <<>>, exp |-> 0]

FNaN == [k |-> "nan", sgn |-> 1, man |-> <<>>, exp |-> 0]

FZero == F(1, <<>>, 0)

\* sgn * m * 2^e rounded to MantBits significant bits, to nearest, ties to even.
FRound(s, m, e) ==
    LET n == BitLen(m)
    IN  IF m = <<>> THEN F(s, <<>>, 0)
        ELSE IF n <= MantBits THEN F(s, LShl(m, MantBits - n), e - (MantBits - n))
        ELSE LET sh  == n - MantBits - 1
                 c   == LShr(m, sh)
                 top == LDivSmall(c.q, 2).q
                 up  == LIsOdd(c.q) /\ (c.st \/ LIsOdd(top))
                 t   == IF up THEN LAdd(top, <<1>>) ELSE top
             IN  IF BitLen(t) > MantBits
                 THEN F(s, LDivSmall(t, 2).q, e + sh + 2)
                 ELSE F(s, t, e + sh + 1)

FFromInt(n) ==
    IF n < 0 THEN FRound(-1, LFromNat(-n), 0) ELSE FRound(1, LFromNat(n), 0)

FNeg(a) == [a EXCEPT !.sgn = -a.sgn]

FIsZero(a) == a.k = "fin" /\ a.man = <<>>

\* -1, 0, 1 as |a| < |b|, |a| = |b|, |a| > |b|, for finite a and b.
MagCmp(a, b) ==
    IF FIsZero(a) \/ FIsZero(b)
    THEN (IF a.man = b.man THEN 0 ELSE IF FIsZero(a) THEN -1 ELSE 1)
    ELSE IF a.exp # b.exp THEN (IF a.exp < b.exp THEN -1 ELSE 1)
    ELSE LCmp(a.man, b.man)

\* a + b
FAdd(a, b) ==
    IF a.k = "nan" \/ b.k = "nan" THEN FNaN
    ELSE IF a.k = "inf" /\ b.k = "inf"
         THEN (IF a.sgn = b.sgn THEN a ELSE FNaN)
    ELSE IF a.k = "inf" THEN a
    ELSE IF b.k = "inf" THEN b
    ELSE IF FIsZero(a) /\ FIsZero(b)
         THEN F(IF a.sgn = -1 /\ b.sgn = -1 THEN -1 ELSE 1, <<>>, 0)
    ELSE IF FIsZero(a) THEN b
    ELSE IF FIsZero(b) THEN a
    ELSE LET e == IF a.exp < b.exp THEN a.exp ELSE b.exp
             x == LShl(a.man, a.exp - e)
             y == LShl(b.man, b.exp - e)
             c == LCmp(x, y)
         IN  IF a.sgn = b.sgn THEN FRound(a.sgn, LAdd(x, y), e)
             ELSE IF c = 0 THEN FZero
             ELSE IF c > 0 THEN FRound(a.sgn, LSub(x, y), e)
             ELSE FRound(b.sgn, LSub(y, x), e)

\* a - b
FSub(a, b) == FAdd(a, FNeg(b))

\* a * b
FMul(a, b) ==
    IF a.k = "nan" \/ b.k = "nan" THEN FNaN
    ELSE IF a.k = "inf" \/ b.k = "inf"
         THEN (IF FIsZero(a) \/ FIsZero(b) THEN FNaN ELSE FInf(a.sgn * b.sgn))
    ELSE FRound(a.sgn * b.sgn, LMul(LTrim(a.man), LTrim(b.man)),
                a.exp + b.exp + LimbBits * (LowZeros(a.man) + LowZeros(b.man)))

\* a / (n as f64) for the machine integer 0 <= n < 2^17, which converts exactly.
FDivNat(a, n) ==
    IF a.k = "nan" THEN FNaN
    ELSE IF a.k = "inf" THEN a
    ELSE IF n = 0 THEN (IF FIsZero(a) THEN FNaN ELSE FInf(a.sgn))
    ELSE IF FIsZero(a) THEN a
    ELSE LET sh == BitLenInt(n) + 3
             d  == LDivSmall(LShl(a.man, sh), n)
         IN  FRound(a.sgn, LMulSmallC(d.q, 2, IF d.r = 0 THEN 0 ELSE 1), a.exp - sh - 1)

\* a < b
FLt(a, b) ==
    IF a.k = "nan" \/ b.k = "nan" THEN FALSE
    ELSE IF a.k = "inf" THEN a.sgn = -1 /\ ~(b.k = "inf" /\ b.sgn = -1)
    ELSE IF b.k = "inf" THEN b.sgn = 1
    ELSE IF FIsZero(a) /\ FIsZero(b) THEN FALSE
    ELSE IF a.sgn # b.sgn THEN a.sgn = -1
    ELSE IF a.sgn = 1 THEN MagCmp(a, b) < 0
    ELSE MagCmp(a, b) > 0

\* a == b
FEq(a, b) ==
    /\ a.k # "nan" /\ b.k # "nan"
    /\ \/ a = b
       \/ FIsZero(a) /\ FIsZero(b)

\* a >= b
FGe(a, b) == FLt(b, a) \/ FEq(a, b)

\* The f64 the decimal literal n / 10^d denotes: the nearest to the quotient.
Dec(n, d) ==
    FDivNat(FFromInt(n), CASE d = 0 -> 1 [] d = 1 -> 10 [] d = 2 -> 100 [] d = 3 -> 1000)

-----------------------------------------------------------------------------
(* State.                                                                  *)
(*   builder    the BlockBuilder a client holds                            *)
(*   built      the Block the last get() returned                          *)
(*   hist       the setter calls made since the builder was created or     *)
(*              last finalized, oldest first                               *)
(*   lastOp     the last builder method called                             *)
(*   prevOp     the builder method called before it                        *)
(*   tl         the RegularTimeLine a client holds                         *)
(*   ret        what the last next() returned                              *)
(*   targs      the arguments tl was constructed with                      *)
(*   yielded    the samples next() has returned so far, oldest first       *)
(*   nones      the calls of next() that returned None, counted up to 2    *)
(*   block      the Block a client holds                                   *)
(*   fargs      the tokens, the selector made of them and the number of    *)
(*              decimals a client formats block with                       *)
(*   fmtr       the BlockFormatter block.format(..) returned               *)
(*   fpos       the position of the loop of fmt in fmtr.data_index         *)
(*   out        what fmt has written so far                                *)
(*   pc         where the client is in its program                         *)
(*   stdout     the lines the driver program has printed                   *)
(*   steps      the time steps the driver program has called forward with  *)

VARIABLES builder, built, hist, lastOp, prevOp,
          tl, ret, targs, yielded, nones,
          block, fargs, fmtr, fpos, out,
          pc, stdout, steps

bvars == <<builder, built, hist, lastOp, prevOp>>

tvars == <<tl, ret, targs, yielded, nones>>

fvars == <<fargs, fmtr, fpos, out>>

mvars == <<stdout, steps>>

vars == <<bvars, tvars, fvars, mvars, block, pc>>

-----------------------------------------------------------------------------
(* Block and BlockBuilder (src/src/block.rs).                              *)

Vec3(x, y, z) == <<x, y, z>>

\* A default block that is a unit cube instead of an empty one.
Block_default_unit ==
    [mass     |-> FZero,
     lengths  |-> <<FFromInt(1), FFromInt(1), FFromInt(1)>>,
     position |-> Vec3(FZero, FZero, FZero),
     velocity |-> Vec3(FZero, FZero, FZero)]

Block_default ==
    [mass     |-> FZero,
     lengths  |-> <<FZero, FZero, FZero>>,
     position |-> Vec3(FZero, FZero, FZero),
     velocity |-> Vec3(FZero, FZero, FZero)]

BlockBuilder_new == [block |-> Block_default]

\* A set_mass_density that computes the total mass at once, from the lengths
\* staged so far.
set_mass_density_eager(self, mass_density) ==
    [self EXCEPT !.block.mass =
        FMul(mass_density,
             FMul(FMul(self.block.lengths[1], self.block.lengths[2]),
                  self.block.lengths[3]))]

set_mass_density(self, mass_density) == [self EXCEPT !.block.mass = mass_density]

\* A set_lengths that also turns the staged mass density into a mass.
set_lengths_scaled(self, lx, ly, lz) ==
    [self EXCEPT !.block.lengths = <<lx, ly, lz>>,
                 !.block.mass = FMul(@, FMul(FMul(lx, ly), lz))]

set_lengths(self, lx, ly, lz) == [self EXCEPT !.block.lengths = <<lx, ly, lz>>]

set_initial_position(self, px, py, pz) ==
    [self EXCEPT !.block.position = Vec3(px, py, pz)]

set_initial_velocity(self, vx, vy, vz) ==
    [self EXCEPT !.block.velocity = Vec3(vx, vy, vz)]

get_volume(self) == FMul(FMul(self.lengths[1], self.lengths[2]), self.lengths[3])

\* A get() that returns the staged mass density as the mass.
get_density(self) ==
    [self |-> [self EXCEPT !.block = Block_default], ret |-> self.block]

\* A get() that leaves the finalized block staged in the builder.
get_keep(self) ==
    LET staged == [self.block EXCEPT !.mass = FMul(@, get_volume(self.block))]
    IN  [self |-> [self EXCEPT !.block = staged], ret |-> staged]

\* The builder after get(), and the block get() returns.
get(self) ==
    LET staged == [self.block EXCEPT !.mass = FMul(@, get_volume(self.block))]
    IN  [self |-> [self EXCEPT !.block = Block_default], ret |-> staged]

\* One setter call c = [op, a] applied to a builder.
Apply(self, c) ==
    CASE c.op = "set_mass_density"     -> set_mass_density(self, c.a[1])
      [] c.op = "set_lengths"          -> set_lengths(self, c.a[1], c.a[2], c.a[3])
      [] c.op = "set_initial_position" -> set_initial_position(self, c.a[1], c.a[2], c.a[3])
      [] c.op = "set_initial_velocity" -> set_initial_velocity(self, c.a[1], c.a[2], c.a[3])

\* The inputs of the builder's clients: the values of the documentation
\* examples of block.rs and of main.rs, and a negative and a zero one.
Densities == {Dec(12, 1), FFromInt(-1)}

Lengths == {<<FFromInt(1), Dec(5, 1), Dec(25, 2)>>,
            <<FFromInt(2), FZero, FFromInt(3)>>}

Positions == {<<FFromInt(1), FFromInt(2), FFromInt(3)>>}

Velocities == {<<FFromInt(-1), FZero, FZero>>}

\* The setter calls between two get() the model follows.
MaxCalls == 4

BuilderInit ==
    /\ builder = BlockBuilder_new
    /\ built = Block_default
    /\ hist = <<>>
    /\ lastOp = "new"
    /\ prevOp = "new"

Setter(c) ==
    /\ Len(hist) < MaxCalls
    /\ builder' = Apply(builder, c)
    /\ hist' = Append(hist, c)
    /\ lastOp' = c.op
    /\ prevOp' = lastOp
    /\ UNCHANGED built

SetMassDensity ==
    \E d \in Densities : Setter([op |-> "set_mass_density", a |-> <<d>>])

SetLengths ==
    \E l \in Lengths : Setter([op |-> "set_lengths", a |-> l])

SetInitialPosition ==
    \E q \in Positions : Setter([op |-> "set_initial_position", a |-> q])

SetInitialVelocity ==
    \E v \in Velocities : Setter([op |-> "set_initial_velocity", a |-> v])

Get ==
    /\ LET r == get(builder)
       IN  builder' = r.self /\ built' = r.ret
    /\ hist' = <<>>
    /\ lastOp' = "get"
    /\ prevOp' = lastOp

-----------------------------------------------------------------------------
(* BlockFormatter (src/src/block.rs).  A string is a sequence of            *)
(* characters.                                                             *)

IsWhitespace(c) == c \in {" ", "\t", "\n"}

\* str::split_whitespace: the maximal runs of non-whitespace characters of s,
\* in order; cur is the run being read and acc the runs read so far.
RECURSIVE SplitFrom(_, _, _)
SplitFrom(s, cur, acc) ==
    IF s = <<>>
    THEN (IF cur = <<>> THEN acc ELSE Append(acc, cur))
    ELSE IF IsWhitespace(Head(s))
         THEN SplitFrom(Tail(s), <<>>, IF cur = <<>> THEN acc ELSE Append(acc, cur))
         ELSE SplitFrom(Tail(s), Append(cur, Head(s)), acc)

split_whitespace(s) == SplitFrom(s, <<>>, <<>>)

LowerChar(c) ==
    CASE c = "P" -> "p"
      [] c = "V" -> "v"
      [] c = "X" -> "x"
      [] c = "Y" -> "y"
      [] c = "Z" -> "z"
      [] c = "Q" -> "q"
      [] OTHER   -> c

\* A to_lowercase that leaves the token as it is.
to_lowercase_none(s) == s

to_lowercase(s) == [i \in 1..Len(s) |-> LowerChar(s[i])]

\* A match whose arm "_" pushes 0..=6.
match_token_inclusive(s) ==
    CASE s = <<"_">>      -> <<0, 1, 2, 3, 4, 5, 6>>
      [] s = <<"p">>      -> <<0, 1, 2>>
      [] s = <<"v">>      -> <<3, 4, 5>>
      [] s = <<"p", "x">> -> <<0>>
      [] s = <<"p", "y">> -> <<1>>
      [] s = <<"p", "z">> -> <<2>>
      [] s = <<"v", "x">> -> <<3>>
      [] s = <<"v", "y">> -> <<4>>
      [] s = <<"v", "z">> -> <<5>>
      [] OTHER            -> <<>>

\* One arm of the match of parse_data_str: the indices token s pushes.
match_token(s) ==
    CASE s = <<"_">>      -> <<0, 1, 2, 3, 4, 5>>
      [] s = <<"p">>      -> <<0, 1, 2>>
      [] s = <<"v">>      -> <<3, 4, 5>>
      [] s = <<"p", "x">> -> <<0>>
      [] s = <<"p", "y">> -> <<1>>
      [] s = <<"p", "z">> -> <<2>>
      [] s = <<"v", "x">> -> <<3>>
      [] s = <<"v", "y">> -> <<4>>
      [] s = <<"v", "z">> -> <<5>>
      [] OTHER            -> <<>>

\* The loop of parse_data_str over the tokens split, with data_index so far.
RECURSIVE parse_loop(_, _)
parse_loop(split, data_index) ==
    IF split = <<>>
    THEN data_index
    ELSE parse_loop(Tail(split), data_index \o match_token(to_lowercase(Head(split))))

parse_data_str(data_str) == parse_loop(split_whitespace(data_str), <<>>)

format(self, data_str, decimal) ==
    [block |-> self, data_index |-> parse_data_str(data_str), decimal |-> decimal]

Digit(n) == <<"0", "1", "2", "3", "4", "5", "6", "7", "8", "9">>[n + 1]

RECURSIVE Pow10(_)
Pow10(d) == IF d = 0 THEN 1 ELSE 10 * Pow10(d - 1)

\* The decimal digits of the natural number a.
RECURSIVE Digits(_)
Digits(a) ==
    IF a = <<>> THEN <<>>
    ELSE LET d == LDivSmall(a, 10) IN Append(Digits(d.q), Digit(d.r))

\* |x| * 10^d rounded to an integer, to nearest, ties to even, for finite x.
Scaled(x, d) ==
    LET t == LMulSmall(x.man, Pow10(d))
    IN  IF x.exp >= 0 THEN LShl(t, x.exp)
        ELSE LET c    == LShr(t, (-x.exp) - 1)
                 fl   == LDivSmall(c.q, 2).q
                 up   == LIsOdd(c.q) /\ (c.st \/ LIsOdd(fl))
             IN  IF up THEN LAdd(fl, <<1>>) ELSE fl

\* format!("{:.*}", decimal, x): x with decimal fractional digits.
FmtFixed(x, decimal) ==
    IF x.k = "nan" THEN <<"N", "a", "N">>
    ELSE IF x.k = "inf"
         THEN (IF x.sgn = -1 THEN <<"-">> ELSE <<>>) \o <<"i", "n", "f">>
    ELSE LET ds   == Digits(Scaled(x, decimal))
             pad  == IF Len(ds) > decimal THEN ds
                     ELSE [i \in 1..(decimal + 1 - Len(ds)) |-> "0"] \o ds
             n    == Len(pad) - decimal
             body == IF decimal = 0 THEN pad
                     ELSE SubSeq(pad, 1, n) \o <<".">> \o SubSeq(pad, n + 1, Len(pad))
         IN  (IF x.sgn = -1 THEN <<"-">> ELSE <<>>) \o body

\* A fmt whose arm 1 writes the x coordinate of the position again.
fmt_index_pasted(self, index) ==
    CASE index = 0 -> <<" ">> \o FmtFixed(self.block.position[1], self.decimal) \o <<" ">>
      [] index = 1 -> <<" ">> \o FmtFixed(self.block.position[1], self.decimal) \o <<" ">>
      [] index = 2 -> <<" ">> \o FmtFixed(self.block.position[3], self.decimal) \o <<" ">>
      [] index = 3 -> <<" ">> \o FmtFixed(self.block.velocity[1], self.decimal) \o <<" ">>
      [] index = 4 -> <<" ">> \o FmtFixed(self.block.velocity[2], self.decimal) \o <<" ">>
      [] index = 5 -> <<" ">> \o FmtFixed(self.block.velocity[3], self.decimal) \o <<" ">>
      [] OTHER     -> <<>>

\* One iteration of the loop of fmt: what index makes it write.
fmt_index(self, index) ==
    CASE index = 0 -> <<" ">> \o FmtFixed(self.block.position[1], self.decimal) \o <<" ">>
      [] index = 1 -> <<" ">> \o FmtFixed(self.block.position[2], self.decimal) \o <<" ">>
      [] index = 2 -> <<" ">> \o FmtFixed(self.block.position[3], self.decimal) \o <<" ">>
      [] index = 3 -> <<" ">> \o FmtFixed(self.block.velocity[1], self.decimal) \o <<" ">>
      [] index = 4 -> <<" ">> \o FmtFixed(self.block.velocity[2], self.decimal) \o <<" ">>
      [] index = 5 -> <<" ">> \o FmtFixed(self.block.velocity[3], self.decimal) \o <<" ">>
      [] OTHER     -> <<>>

\* What fmt has written after its iterations 1..n.
RECURSIVE fmt_upto(_, _)
fmt_upto(self, n) ==
    IF n = 0 THEN <<>>
    ELSE fmt_upto(self, n - 1) \o fmt_index(self, self.data_index[n])

fmt(self) == fmt_upto(self, Len(self.data_index))

\* The selectors of the model: up to MaxTokens tokens, the known ones, two in
\* capitals and an unknown one, joined by white space.
Tokens == {<<"_">>, <<"p">>, <<"v">>,
           <<"p", "x">>, <<"p", "y">>, <<"p", "z">>,
           <<"v", "x">>, <<"v", "y">>, <<"v", "z">>,
           <<"P">>, <<"V", "y">>, <<"q">>}

Separators == {<<" ">>, <<"\t", " ">>}

MaxTokens == 2

TokenLists == UNION {[1..n -> Tokens] : n \in 0..MaxTokens}

RECURSIVE Join(_, _)
Join(ts, sep) ==
    IF ts = <<>> THEN <<>>
    ELSE IF Len(ts) = 1 THEN ts[1]
    ELSE ts[1] \o sep \o Join(Tail(ts), sep)

\* The blocks formatted: the one the driver program prints first, and one
\* whose six channels differ.
FormatBlocks ==
    {[mass     |-> FFromInt(1),
      lengths  |-> <<FFromInt(1), FFromInt(1), FFromInt(1)>>,
      position |-> <<Dec(-1, 1), FZero, FZero>>,
      velocity |-> <<FFromInt(-1), FZero, FZero>>],
     [mass     |-> FFromInt(1),
      lengths  |-> <<FFromInt(1), FFromInt(1), FFromInt(1)>>,
      position |-> <<FFromInt(1), FFromInt(2), FFromInt(3)>>,
      velocity |-> <<FFromInt(-1), Dec(5, 1), Dec(25, 2)>>]}

Decimals == {3}

FormatInit ==
    /\ block \in FormatBlocks
    /\ \E ts \in TokenLists, sep \in Separators, d \in Decimals :
          fargs = [toks |-> ts, data_str |-> Join(ts, sep), decimal |-> d]
    /\ fmtr = [block |-> block, data_index |-> <<>>, decimal |-> 0]
    /\ fpos = 0
    /\ out = <<>>

\* block.format(data_str, decimal), and Display::fmt entered on the result.
Format(data_str, decimal) ==
    /\ fmtr' = format(block, data_str, decimal)
    /\ fpos' = 1
    /\ out' = <<>>
    /\ UNCHANGED fargs

\* One iteration of the loop of fmt.
FmtWrite ==
    /\ fpos >= 1
    /\ fpos <= Len(fmtr.data_index)
    /\ out' = out \o fmt_index(fmtr, fmtr.data_index[fpos])
    /\ fpos' = fpos + 1
    /\ UNCHANGED <<fargs, fmtr>>

\* The loop of fmt is over.
FmtOver == fpos > Len(fmtr.data_index)

-----------------------------------------------------------------------------
(* The driver program (src/src/main.rs).                                   *)

\* self.add_in(a, v) of the coordinates of mersh::base: self += a * v,
\* coordinate by coordinate.
add_in(self, a, v) == [i \in 1..3 |-> FAdd(self[i], FMul(a, v[i]))]

\* A forward with the receiver and the argument of add_in exchanged.
forward_exchanged(b, ts) ==
    [b EXCEPT !.velocity = add_in(b.velocity, ts, b.position)]

forward(b, ts) == [b EXCEPT !.position = add_in(b.position, ts, b.velocity)]

\* The blocks forward is called with: the one the driver program builds and
\* the ones formatted; the time steps: the one the driver program passes and
\* the time_step of its time line.
ForwardBlocks ==
    FormatBlocks \cup
    {[mass     |-> FFromInt(1),
      lengths  |-> <<FFromInt(1), FFromInt(1), FFromInt(1)>>,
      position |-> <<FZero, FZero, FZero>>,
      velocity |-> <<FFromInt(-1), FZero, FZero>>]}

TimeSteps == {Dec(1, 1), Dec(1, 2)}

\* The calls of forward on one block the model follows.
MaxSteps == 6

ForwardInit ==
    /\ block \in ForwardBlocks
    /\ built = block
    /\ steps = <<>>

Forward(ts) ==
    /\ Len(steps) < MaxSteps
    /\ block' = forward(block, ts)
    /\ steps' = Append(steps, ts)
    /\ UNCHANGED built

-----------------------------------------------------------------------------
(* RegularTimeLine (src/src/timeline.rs).                                  *)

None == [some |-> FALSE, v |-> FZero]

Some(t) == [some |-> TRUE, v |-> t]

\* A constructor that divides whatever the order of the bounds.
RegularTimeLine_new_unguarded(min, max, nstep) ==
    [max_time |-> max, time_step |-> FDivNat(FSub(max, min), nstep),
     current_time |-> min]

RegularTimeLine_new(min, max, nstep) ==
    LET dt == IF FLt(min, max) THEN FDivNat(FSub(max, min), nstep) ELSE FZero
    IN  [max_time |-> max, time_step |-> dt, current_time |-> min]

\* A next() that rewinds the time line when it is exhausted.
next_rewind(self) ==
    IF FLt(self.current_time, self.max_time)
    THEN [self |-> [self EXCEPT !.current_time = FAdd(@, self.time_step)],
          ret  |-> Some(self.current_time)]
    ELSE [self |-> [self EXCEPT !.current_time = FZero], ret |-> None]

\* A next() that returns the time it has advanced to.
next_advanced(self) ==
    IF FLt(self.current_time, self.max_time)
    THEN [self |-> [self EXCEPT !.current_time = FAdd(@, self.time_step)],
          ret  |-> Some(FAdd(self.current_time, self.time_step))]
    ELSE [self |-> self, ret |-> None]

\* The time line after next(), and what next() returns.
next(self) ==
    IF FLt(self.current_time, self.max_time)
    THEN [self |-> [self EXCEPT !.current_time = FAdd(@, self.time_step)],
          ret  |-> Some(self.current_time)]
    ELSE [self |-> self, ret |-> None]

\* The bounds of the time lines of the model: those of the documentation
\* examples of timeline.rs and of main.rs, a few more, and the f64 that is
\* not a number.
Times == {FFromInt(0), Dec(1, 1), Dec(5, 1), FFromInt(1), FFromInt(2), FFromInt(-1),
          FNaN}

MaxNstep == 10

TimeLineInit ==
    /\ \E min \in Times, max \in Times, nstep \in 0..MaxNstep :
          /\ targs = [min |-> min, max |-> max, nstep |-> nstep]
          /\ tl = RegularTimeLine_new(min, max, nstep)
    /\ ret = None
    /\ yielded = <<>>
    /\ nones = 0

TimeLineNext ==
    /\ LET r == next(tl)
       IN  /\ tl' = r.self
           /\ ret' = r.ret
           /\ yielded' = IF r.ret.some THEN Append(yielded, r.ret.v) ELSE yielded
           /\ nones' = IF r.ret.some THEN nones ELSE IF nones < 2 THEN nones + 1 ELSE 2
    /\ UNCHANGED targs

-----------------------------------------------------------------------------
(* Specifications: a client of the builder, a client of a time line, a     *)
(* client that formats a block, and the driver program.  The variables a   *)
(* client does not use stay Idle.                                          *)

Idle == "idle"

IdleBuilder ==
    /\ builder = Idle
    /\ built = Idle
    /\ hist = Idle
    /\ lastOp = Idle
    /\ prevOp = Idle

IdleTimeLine ==
    /\ targs = Idle
    /\ tl = Idle
    /\ ret = Idle
    /\ yielded = Idle
    /\ nones = Idle

IdleFormat ==
    /\ fargs = Idle
    /\ fmtr = Idle
    /\ fpos = Idle
    /\ out = Idle

IdleMain ==
    /\ stdout = Idle
    /\ steps = Idle

InitBuilder ==
    /\ BuilderInit
    /\ IdleTimeLine /\ IdleFormat /\ IdleMain
    /\ block = Idle
    /\ pc = Idle

NextBuilder ==
    \/ SetMassDensity /\ UNCHANGED <<tvars, fvars, mvars, block, pc>>
    \/ SetLengths /\ UNCHANGED <<tvars, fvars, mvars, block, pc>>
    \/ SetInitialPosition /\ UNCHANGED <<tvars, fvars, mvars, block, pc>>
    \/ SetInitialVelocity /\ UNCHANGED <<tvars, fvars, mvars, block, pc>>
    \/ Get /\ UNCHANGED <<tvars, fvars, mvars, block, pc>>

SpecBuilder == InitBuilder /\ [][NextBuilder]_vars

InitTimeLine ==
    /\ TimeLineInit
    /\ IdleBuilder /\ IdleFormat /\ IdleMain
    /\ block = Idle
    /\ pc = Idle

NextTimeLine == TimeLineNext /\ UNCHANGED <<bvars, fvars, mvars, block, pc>>

SpecTimeLine == InitTimeLine /\ [][NextTimeLine]_vars

InitFormat ==
    /\ FormatInit
    /\ IdleBuilder /\ IdleTimeLine /\ IdleMain
    /\ pc = "format"

FormatCall ==
    /\ pc = "format"
    /\ Format(fargs.data_str, fargs.decimal)
    /\ pc' = "fmt"
    /\ UNCHANGED <<bvars, tvars, mvars, block>>

FormatWrite ==
    /\ pc = "fmt"
    /\ FmtWrite
    /\ UNCHANGED <<bvars, tvars, mvars, block, pc>>

FormatReturn ==
    /\ pc = "fmt"
    /\ FmtOver
    /\ pc' = "done"
    /\ UNCHANGED <<bvars, tvars, fvars, mvars, block>>

NextFormat == FormatCall \/ FormatWrite \/ FormatReturn

SpecFormat == InitFormat /\ [][NextFormat]_vars

\* main(), statement by statement.
InitMain ==
    /\ pc = "new"
    /\ IdleBuilder /\ IdleTimeLine /\ IdleFormat
    /\ block = Idle
    /\ stdout = <<>>
    /\ steps = <<>>

MainNew ==
    /\ pc = "new"
    /\ builder' = BlockBuilder_new
    /\ built' = Block_default
    /\ hist' = <<>>
    /\ lastOp' = "new"
    /\ prevOp' = "new"
    /\ pc' = "set_mass_density"
    /\ UNCHANGED <<tvars, fvars, mvars, block>>

MainSetMassDensity ==
    /\ pc = "set_mass_density"
    /\ Setter([op |-> "set_mass_density", a |-> <<FFromInt(1)>>])
    /\ pc' = "set_lengths"
    /\ UNCHANGED <<tvars, fvars, mvars, block>>

MainSetLengths ==
    /\ pc = "set_lengths"
    /\ Setter([op |-> "set_lengths", a |-> <<FFromInt(1), FFromInt(1), FFromInt(1)>>])
    /\ pc' = "set_initial_velocity"
    /\ UNCHANGED <<tvars, fvars, mvars, block>>

MainSetInitialVelocity ==
    /\ pc = "set_initial_velocity"
    /\ Setter([op |-> "set_initial_velocity", a |-> <<FFromInt(-1), FZero, FZero>>])
    /\ pc' = "get"
    /\ UNCHANGED <<tvars, fvars, mvars, block>>

MainGet ==
    /\ pc = "get"
    /\ Get
    /\ block' = built'
    /\ pc' = "timeline"
    /\ UNCHANGED <<tvars, fvars, mvars>>

MainTimeLine ==
    /\ pc = "timeline"
    /\ targs' = [min |-> FZero, max |-> Dec(1, 1), nstep |-> 10]
    /\ tl' = RegularTimeLine_new(FZero, Dec(1, 1), 10)
    /\ ret' = None
    /\ yielded' = <<>>
    /\ nones' = 0
    /\ pc' = "next"
    /\ UNCHANGED <<bvars, fvars, mvars, block>>

MainNext ==
    /\ pc = "next"
    /\ TimeLineNext
    /\ pc' = IF ret'.some THEN "forward" ELSE "done"
    /\ UNCHANGED <<bvars, fvars, mvars, block>>

MainForward ==
    /\ pc = "forward"
    /\ block' = forward(block, Dec(1, 1))
    /\ steps' = Append(steps, Dec(1, 1))
    /\ pc' = "format"
    /\ UNCHANGED <<bvars, tvars, fvars, stdout>>

MainFormat ==
    /\ pc = "format"
    /\ fmtr' = format(block, <<"_">>, 3)
    /\ fpos' = 1
    /\ out' = <<>>
    /\ fargs' = [toks |-> <<<<"_">>>>, data_str |-> <<"_">>, decimal |-> 3]
    /\ pc' = "fmt"
    /\ UNCHANGED <<bvars, tvars, mvars, block>>

MainFmtWrite ==
    /\ pc = "fmt"
    /\ FmtWrite
    /\ UNCHANGED <<bvars, tvars, mvars, block, pc>>

MainPrintln ==
    /\ pc = "fmt"
    /\ FmtOver
    /\ stdout' = Append(stdout, out)
    /\ pc' = "next"
    /\ UNCHANGED <<bvars, tvars, fvars, steps, block>>

NextMain ==
    \/ MainNew
    \/ MainSetMassDensity
    \/ MainSetLengths
    \/ MainSetInitialVelocity
    \/ MainGet
    \/ MainTimeLine
    \/ MainNext
    \/ MainForward
    \/ MainFormat
    \/ MainFmtWrite
    \/ MainPrintln

SpecMain == InitMain /\ [][NextMain]_vars

\* A client that calls forward on a block it has built.
InitForward ==
    /\ ForwardInit
    /\ builder = Idle /\ hist = Idle /\ lastOp = Idle /\ prevOp = Idle
    /\ IdleTimeLine /\ IdleFormat
    /\ stdout = Idle
    /\ pc = Idle

NextForward ==
    \E ts \in TimeSteps :
        /\ Forward(ts)
        /\ UNCHANGED <<builder, hist, lastOp, prevOp, tvars, fvars, stdout, pc>>

SpecForward == InitForward /\ [][NextForward]_vars

-----------------------------------------------------------------------------
(* Properties of the builder, under SpecBuilder.                           *)

\* The arguments of the last call of setter op in h, or dflt.
LastArg(h, op, dflt) ==
    LET I == {i \in 1..Len(h) : h[i].op = op}
    IN  IF I = {} THEN dflt
        ELSE h[CHOOSE i \in I : \A j \in I : j <= i].a

Zero3 == <<FZero, FZero, FZero>>

\* C1: the block get() returns has mass = (last staged mass density) *
\* (lx * ly * lz) for the lengths staged when get() is called, and its
\* lengths, position and velocity are the last staged values, zero where a
\* setter was not called since the builder was created or last finalized.
C1_GetBuildsFromLastStaged ==
    [][lastOp' = "get" =>
         LET d == LastArg(hist, "set_mass_density", <<FZero>>)[1]
             l == LastArg(hist, "set_lengths", Zero3)
         IN  /\ built'.mass = FMul(d, FMul(FMul(l[1], l[2]), l[3]))
             /\ built'.lengths = l
             /\ built'.position = LastArg(hist, "set_initial_position", Zero3)
             /\ built'.velocity = LastArg(hist, "set_initial_velocity", Zero3)]_vars

\* The documentation example of get(), with a position and a velocity:
\* density 1.2 and lengths (1, 0.5, 0.25) give the mass 0.15.
C1_Witness ==
    /\ lastOp = "get"
    /\ built.mass = Dec(15, 2)
    /\ built.lengths = <<FFromInt(1), Dec(5, 1), Dec(25, 2)>>
    /\ built.position = <<FFromInt(1), FFromInt(2), FFromInt(3)>>
    /\ built.velocity = <<FFromInt(-1), FZero, FZero>>

\* C2: right after any get() the staged block is the all-default block, and
\* a get() that directly follows a get() returns the all-default block.
C2_BuilderResetByGet ==
    /\ lastOp = "get" =>
          /\ builder.block.mass = FZero
          /\ builder.block.lengths = Zero3
          /\ builder.block.position = Zero3
          /\ builder.block.velocity = Zero3
    /\ (prevOp = "get" /\ lastOp = "get") =>
          /\ built.mass = FZero
          /\ built.lengths = Zero3
          /\ built.position = Zero3
          /\ built.velocity = Zero3

C2_Witness ==
    /\ prevOp = "get"
    /\ lastOp = "get"
    /\ built.mass = FZero
    /\ builder.block.lengths = Zero3

\* C3: BlockBuilder::new() directly followed by get() yields a block of mass
\* 0, volume 0, position (0,0,0) and velocity (0,0,0).
C3_BuilderDefault ==
    (prevOp = "new" /\ lastOp = "get") =>
        /\ built.mass = FZero
        /\ get_volume(built) = FZero
        /\ built.position = Zero3
        /\ built.velocity = Zero3

C3_Witness ==
    /\ prevOp = "new"
    /\ lastOp = "get"
    /\ built.mass = FZero
    /\ get_volume(built) = FZero

RECURSIVE ApplyAll(_, _)
ApplyAll(self, h) ==
    IF h = <<>> THEN self ELSE ApplyAll(Apply(self, Head(h)), Tail(h))

\* h with its calls i and i + 1 exchanged.
Swap(h, i) ==
    [j \in 1..Len(h) |-> IF j = i THEN h[i + 1] ELSE IF j = i + 1 THEN h[i] ELSE h[j]]

\* h without its call i.
Drop(h, i) == SubSeq(h, 1, i - 1) \o SubSeq(h, i + 1, Len(h))

\* C4: the block get() returns does not depend on the relative order of the
\* calls of different setters, and of several calls of one setter the last
\* wins.  Stated on neighbours: exchanging two adjacent calls of different
\* setters, or dropping a call that a later call of the same setter follows,
\* gives the same block; every order is reached by such exchanges, and every
\* sequence of calls is one the client makes.
C4_SetterOrderIndependent ==
    [][lastOp' = "get" =>
         /\ \A i \in 1..(Len(hist) - 1) :
               hist[i].op # hist[i + 1].op =>
                   get(ApplyAll(BlockBuilder_new, Swap(hist, i))).ret = built'
         /\ \A i \in 1..Len(hist) :
               (\E j \in (i + 1)..Len(hist) : hist[j].op = hist[i].op) =>
                   get(ApplyAll(BlockBuilder_new, Drop(hist, i))).ret = built']_vars

\* All four setters were called, the lengths after the density, and the
\* mass is the one of the documentation example.
C4_Witness ==
    /\ lastOp = "get"
    /\ prevOp = "set_lengths"
    /\ built.mass = Dec(15, 2)
    /\ built.position # Zero3
    /\ built.velocity # Zero3

-----------------------------------------------------------------------------
(* Properties of the time line, under SpecTimeLine.                        *)

\* <<0.0, 0.1, ..., (n - 1) / 10>>
Tenths(n) == [i \in 1..n |-> Dec(i - 1, 1)]

\* |a - b| <= 1e-10, the tolerance within which samples are compared.
Tolerance == FDivNat(FDivNat(FFromInt(1), 100000), 100000)

Near(a, b) ==
    LET d == FSub(a, b) IN FGe(Tolerance, [d EXCEPT !.sgn = 1])

\* C5: RegularTimeLine(0, 1, 10) yields exactly the 10 samples 0.0, 0.1, ...,
\* 0.9 and never 1.0; for min < max and nstep >= 1, next() yields exactly
\* nstep samples, the i-th (from 0) is min + i * time_step (to within 1e-10),
\* the first is min, and no yielded value is >= max_time.
C5_HalfOpen ==
    (FLt(targs.min, targs.max) /\ targs.nstep >= 1) =>
        /\ Len(yielded) <= targs.nstep
        /\ nones > 0 => Len(yielded) = targs.nstep
        /\ \A i \in 1..Len(yielded) :
              /\ Near(yielded[i], FAdd(targs.min, FMul(FFromInt(i - 1), tl.time_step)))
              /\ ~FGe(yielded[i], tl.max_time)
        /\ yielded # <<>> => yielded[1] = targs.min
        /\ (targs.min = FZero /\ targs.max = FFromInt(1) /\ targs.nstep = 10 /\ nones > 0) =>
              /\ Len(yielded) = 10
              /\ \A i \in 1..Len(yielded) : Near(yielded[i], Tenths(10)[i])

\* C6: for min >= max and every nstep the time line has time_step = 0 and
\* current_time = min, next() returns None and nothing is yielded.
C6_Degenerate ==
    FGe(targs.min, targs.max) =>
        /\ tl.time_step = FZero
        /\ tl.current_time = targs.min
        /\ ~ret.some
        /\ yielded = <<>>

\* RegularTimeLine::new(1.0, 0.0, 10), after next().
C6_Witness ==
    /\ targs = [min |-> FFromInt(1), max |-> FZero, nstep |-> 10]
    /\ nones > 0
    /\ yielded = <<>>

\* C7, as stated: once next() has returned None, current_time >= max_time
\* holds and every call of next() returns None.
C7_ExhaustedAtOrPastMax ==
    nones > 0 => (~ret.some /\ FGe(tl.current_time, tl.max_time))

\* C7: once next() has returned None, current_time < max_time is false in
\* every later state, which is current_time >= max_time unless one of the two
\* is NaN, and every later call of next() returns None.
C7_NotRestartable ==
    nones > 0 =>
        /\ ~ret.some
        /\ ~FLt(tl.current_time, tl.max_time)
        /\ (tl.current_time.k # "nan" /\ tl.max_time.k # "nan") =>
              FGe(tl.current_time, tl.max_time)

\* next() was called again after it had returned None, on a time line that
\* had yielded samples.
C7_Witness ==
    /\ nones = 2
    /\ Len(yielded) >= 2
    /\ ~ret.some

\* C10: next() never changes time_step or max_time; when it returns Some(t),
\* t is the current_time before the call and current_time has increased by
\* time_step; when it returns None, the time line is unchanged.
C10_NextFrame ==
    [][/\ tl'.time_step = tl.time_step
       /\ tl'.max_time = tl.max_time
       /\ ret'.some =>
             /\ ret'.v = tl.current_time
             /\ tl'.current_time = FAdd(tl.current_time, tl.time_step)
       /\ ~ret'.some => tl' = tl]_vars

C10_Witness ==
    /\ Len(yielded) >= 2
    /\ nones = 1
    /\ tl.current_time = FAdd(yielded[Len(yielded)], tl.time_step)
    /\ tl.current_time # yielded[Len(yielded)]

-----------------------------------------------------------------------------
(* Properties of the formatter, under SpecFormat.                          *)

\* The spellings of the character c in either case.
Cased(c) ==
    CASE c = "p" -> {"p", "P"}
      [] c = "v" -> {"v", "V"}
      [] c = "x" -> {"x", "X"}
      [] c = "y" -> {"y", "Y"}
      [] c = "z" -> {"z", "Z"}

Cased2(c, d) == {<<a, b>> : a \in Cased(c), b \in Cased(d)}

\* The expansion of one token, compared without regard to case.
Expansion(t) ==
    CASE t = <<"_">>                         -> <<0, 1, 2, 3, 4, 5>>
      [] t \in {<<a>> : a \in Cased("p")}    -> <<0, 1, 2>>
      [] t \in {<<a>> : a \in Cased("v")}    -> <<3, 4, 5>>
      [] t \in Cased2("p", "x")              -> <<0>>
      [] t \in Cased2("p", "y")              -> <<1>>
      [] t \in Cased2("p", "z")              -> <<2>>
      [] t \in Cased2("v", "x")              -> <<3>>
      [] t \in Cased2("v", "y")              -> <<4>>
      [] t \in Cased2("v", "z")              -> <<5>>
      [] OTHER                               -> <<>>

RECURSIVE Expansions(_)
Expansions(ts) ==
    IF ts = <<>> THEN <<>> ELSE Expansion(Head(ts)) \o Expansions(Tail(ts))

\* C8: the index list Block::format builds is the concatenation, in token
\* order, of the expansions of the tokens of the selector, with duplicates
\* and repeats kept; the selector "q _" gives the index list and the rendered
\* output of "_".
C8_SelectorParsing ==
    /\ pc \in {"fmt", "done"} => fmtr.data_index = Expansions(fargs.toks)
    /\ (pc = "done" /\ fargs.toks = <<<<"q">>, <<"_">>>>) =>
          /\ fmtr.data_index = format(block, <<"_">>, fargs.decimal).data_index
          /\ out = fmt(format(block, <<"_">>, fargs.decimal))

\* "q _" was formatted and rendered: six fields.
C8_Witness ==
    /\ pc = "done"
    /\ fargs.toks = <<<<"q">>, <<"_">>>>
    /\ fmtr.data_index = <<0, 1, 2, 3, 4, 5>>
    /\ Len(out) > 6

-----------------------------------------------------------------------------
(* Properties of the driver program, under SpecMain.                       *)

\* C9: the driver loop calls forward once per sample the time line yields,
\* always with the same dt, which is the time_step of the time line, so that
\* after the loop the block has moved by velocity * (max - min).
C9_DriverStepIsTimeStep ==
    /\ \A i \in 1..Len(steps) : steps[i] = tl.time_step
    /\ pc \in {"next", "done"} => Len(steps) = Len(yielded)
    /\ pc = "done" =>
          block.position =
              [i \in 1..3 |-> FAdd(built.position[i],
                                   FMul(built.velocity[i], FSub(targs.max, targs.min)))]

-----------------------------------------------------------------------------
(* More properties of the time line, under SpecTimeLine.                   *)

\* C11: for min < max and nstep >= 1 the samples next() yields are strictly
\* increasing and evenly spaced (each is time_step after the one before, to
\* within 1e-10), and next() returns None after at most nstep samples.
C11_TerminatesWithinNstep ==
    (FLt(targs.min, targs.max) /\ targs.nstep >= 1) =>
        /\ \A i \in 1..(Len(yielded) - 1) :
              /\ FLt(yielded[i], yielded[i + 1])
              /\ Near(FSub(yielded[i + 1], yielded[i]), tl.time_step)
        /\ Len(yielded) <= targs.nstep


-----------------------------------------------------------------------------
(* Properties of the integration step, under SpecForward.                  *)

\* All the time steps of h are the same.
SameStep(h) == \A i \in 1..Len(h) : h[i] = h[1]

\* p0 + k * dt * v, with the product taken in either order.
Linear(p0, k, dt, v) ==
    {FAdd(p0, FMul(FMul(FFromInt(k), dt), v)),
     FAdd(p0, FMul(FFromInt(k), FMul(dt, v)))}

\* C12, as stated: forward changes the position only, and after k steps with
\* the same dt the position equals the initial position + k * dt * velocity.
C12_ForwardClosedForm ==
    /\ block.velocity = built.velocity
    /\ block.mass = built.mass
    /\ block.lengths = built.lengths
    /\ (steps # <<>> /\ SameStep(steps)) =>
          \A i \in 1..3 :
              block.position[i] \in
                  Linear(built.position[i], Len(steps), steps[1], built.velocity[i])

\* C12: forward(block, dt) replaces each coordinate of the position by the
\* f64 position + dt * velocity and leaves velocity, mass and lengths
\* unchanged; after k steps with the same dt the position is within rounding
\* (here 1e-10) of the initial position + k * dt * velocity; position
\* (0,0,0) and velocity (-1,0,0) give (-0.1,0,0) after one step of 0.1.
C12_ForwardStep ==
    [][LET dt == steps'[Len(steps')]
       IN  /\ \A i \in 1..3 :
                 block'.position[i] =
                     FAdd(block.position[i], FMul(dt, block.velocity[i]))
           /\ block'.velocity = block.velocity
           /\ block'.mass = block.mass
           /\ block'.lengths = block.lengths
           /\ SameStep(steps') =>
                 \A i \in 1..3 : \A x \in Linear(built.position[i], Len(steps'), dt,
                                                 built.velocity[i]) :
                     Near(block'.position[i], x)
           /\ (/\ steps' = <<Dec(1, 1)>>
               /\ built.position = <<FZero, FZero, FZero>>
               /\ built.velocity = <<FFromInt(-1), FZero, FZero>>) =>
                 /\ block'.position = <<Dec(-1, 1), FZero, FZero>>
                 /\ block'.velocity = <<FFromInt(-1), FZero, FZero>>]_vars

\* Six steps of 0.1 at the velocity (-1,0,0) from the origin: the position
\* is -0.6, which 6 * 0.1 * -1 is not.
C12_Witness ==
    /\ steps = [i \in 1..6 |-> Dec(1, 1)]
    /\ built.position = <<FZero, FZero, FZero>>
    /\ block.position = <<Dec(-6, 1), FZero, FZero>>
    /\ block.position[1] \notin Linear(FZero, 6, Dec(1, 1), FFromInt(-1))
    /\ block.velocity = <<FFromInt(-1), FZero, FZero>>


-----------------------------------------------------------------------------
(* More properties of the formatter, under SpecFormat.                     *)

\* The scalar index i selects: 0, 1, 2 the position x, y, z and 3, 4, 5 the
\* velocity x, y, z.
Channel(b, i) == IF i < 3 THEN b.position[i + 1] ELSE b.velocity[i - 2]

\* One emitted field: the scalar between a leading and a trailing space.
Field(b, i, d) == <<" ">> \o FmtFixed(Channel(b, i), d) \o <<" ">>

RECURSIVE Fields(_, _, _)
Fields(b, is, d) ==
    IF is = <<>> THEN <<>> ELSE Field(b, Head(is), d) \o Fields(b, Tail(is), d)

\* C13: format and the rendering of the formatter leave the block as it is;
\* every iteration of the rendering emits the one field of its index, so the
\* output is the fields of the index list in order, as many as the list is
\* long, and nothing for an empty or all-unknown selector.
C13_FormatReadOnlyOrdered ==
    [][/\ block' = block
       /\ fmtr'.block = block
       /\ (pc = "fmt" /\ fpos' = fpos + 1) =>
             out' = out \o Field(block, fmtr.data_index[fpos], fmtr.decimal)
       /\ pc' = "done" =>
             /\ out' = Fields(block, fmtr'.data_index, fmtr'.decimal)
             /\ Len(SplitFrom(out', <<>>, <<>>)) = Len(fmtr'.data_index)
             /\ (\A i \in 1..Len(fargs.toks) : Expansion(fargs.toks[i]) = <<>>) =>
                   out' = <<>>]_vars

\* "v px" rendered with 3 decimals for the block at (1, 2, 3) with the
\* velocity (-1, 0.5, 0.25): " -1.000  0.500  0.250  1.000 ".
C13_Witness ==
    /\ pc = "done"
    /\ fmtr.data_index = <<3, 4, 5, 0>>
    /\ block.position = <<FFromInt(1), FFromInt(2), FFromInt(3)>>
    /\ out = <<" ", "-", "1", ".", "0", "0", "0", " ",
               " ", "0", ".", "5", "0", "0", " ",
               " ", "0", ".", "2", "5", "0", " ",
               " ", "1", ".", "0", "0", "0", " ">>

\* C15: every index parse_data_str produces is in 0..5, so that no iteration
\* of the rendering takes the fallback arm (each writes something), and the
\* index list has at most 6 entries per token of the selector.
C15_IndexRange ==
    [][/\ pc' \in {"fmt", "done"} =>
             /\ \A i \in 1..Len(fmtr'.data_index) : fmtr'.data_index[i] \in 0..5
             /\ Len(fmtr'.data_index) <= 6 * Len(fargs.toks)
       /\ (pc = "fmt" /\ fpos' = fpos + 1) => out' # out]_vars

\* "_ _" was parsed and rendered: 12 indices for 2 tokens.
C15_Witness ==
    /\ pc = "done"
    /\ fargs.toks = <<<<"_">>, <<"_">>>>
    /\ Len(fmtr.data_index) = 12
    /\ fpos = 13

-----------------------------------------------------------------------------
(* More properties of the builder, under SpecBuilder.                      *)

\* C14: a setter changes only its own staged field, to its argument, and
\* leaves the block get() returned before as it is; get() returns the staged
\* lengths, position and velocity in a block of its own, which the reset of
\* the builder does not touch.
C14_SetterFrame ==
    [][/\ lastOp' = "set_mass_density" =>
             /\ builder'.block = [builder.block EXCEPT !.mass = hist'[Len(hist')].a[1]]
             /\ built' = built
       /\ lastOp' = "set_lengths" =>
             /\ builder'.block = [builder.block EXCEPT !.lengths = hist'[Len(hist')].a]
             /\ built' = built
       /\ lastOp' = "set_initial_position" =>
             /\ builder'.block = [builder.block EXCEPT !.position = hist'[Len(hist')].a]
             /\ built' = built
       /\ lastOp' = "set_initial_velocity" =>
             /\ builder'.block = [builder.block EXCEPT !.velocity = hist'[Len(hist')].a]
             /\ built' = built
       /\ lastOp' = "get" =>
             /\ built' = [builder.block EXCEPT !.mass = built'.mass]
             /\ builder'.block = Block_default]_vars

\* set_lengths was called after set_mass_density on a builder that has
\* returned a block before: the staged density is still 1.2.
C14_Witness ==
    /\ lastOp = "set_lengths"
    /\ prevOp = "set_mass_density"
    /\ builder.block.mass = Dec(12, 1)
    /\ builder.block.lengths = <<FFromInt(1), Dec(5, 1), Dec(25, 2)>>
    /\ built.mass = Dec(15, 2)

=============================================================================
